---------------------------- MODULE Spec2Model ----------------------------
(***************************************************************************)
(* SCF drivers of the QMMM study group notebooks:                          *)
(*   - the unrestricted Hartree-Fock driver with DIIS                      *)
(*     (02_SCF/advanced/uhf_diis_psi4.ipynb), and                          *)
(*   - the restricted Hartree-Fock driver of the MP2 notebook              *)
(*     (unnamed/part_001).                                                 *)
(*                                                                         *)
(* Numbers.  The notebooks compute in floating point; the model computes   *)
(* exactly.  Matrix and tensor entries are integers.  Energies are fixed   *)
(* point numbers with denominator EScale (the UHF energy carries a factor  *)
(* 0.5).  The Frobenius norm sqrt(x) is kept as its square x and compared  *)
(* with the square of the threshold.  The solution of the Pulay system and *)
(* the extrapolated Fock matrix are exact rationals (numerators over one   *)
(* common denominator, in lowest terms).                                   *)
(*                                                                         *)
(* The generalized eigensolver spla.eigh is an external collaborator: each *)
(* call returns some coefficient matrix out of CoeffSet.                   *)
(***************************************************************************)
EXTENDS Integers, Sequences, FiniteSets

(***************************************************************************)
(* Bounds of the model.                                                    *)
(***************************************************************************)
num_ao == 3          \* basis dimension n
MaxIterMax == 3      \* iteration_max is drawn from 1..MaxIterMax
MaxHist == 3         \* a direct call of diis gets 1..MaxHist history entries

EScale == 2          \* energies are stored as EScale * (value in Hartree)

Idx == 0 .. (num_ao - 1)
Idx2 == Idx \X Idx

VARIABLES
    driver,               \* "RHF" (part_001) or "UHF" (uhf_diis_psi4.ipynb)
    pc,                   \* "loop", "done", "raised" (uncaught LinAlgError)
    \* fixed inputs
    S, H, A, eri, eri_s8, E_nuc, num_elec_alpha, num_elec_beta,
    iteration_max, convergence_E, convergence_DM,
    \* loop variables shared by both notebooks
    iteration_num, iteration_E_diff, iteration_rmsc_dm,
    converged, exceeded_iterations, E_elec_last,
    \* UHF
    E_elec, E_total, D_alpha, D_beta, D_total, D_total_last,
    F_alpha, F_beta, F_list_alpha, F_list_beta,
    DIIS_resid_alpha, DIIS_resid_beta,
    \* RHF
    E_scf_elec, E_scf_total, D, D_last, F,
    idx2_cache,           \* __idx2_cache: (i, j) -> index, filled by idx2
    \* frame of a direct call of diis (the pure-function specification)
    call

inputs == <<S, H, A, eri, eri_s8, E_nuc, num_elec_alpha, num_elec_beta,
            iteration_max, convergence_E, convergence_DM>>
\* the fixed inputs other than H
inputsNotH == <<S, A, eri, eri_s8, E_nuc, num_elec_alpha, num_elec_beta,
                iteration_max, convergence_E, convergence_DM>>
loopvars == <<iteration_num, iteration_E_diff, iteration_rmsc_dm,
              converged, exceeded_iterations, E_elec_last>>
uhfvars == <<E_elec, E_total, D_alpha, D_beta, D_total, D_total_last,
             F_alpha, F_beta, F_list_alpha, F_list_beta,
             DIIS_resid_alpha, DIIS_resid_beta>>
rhfvars == <<E_scf_elec, E_scf_total, D, D_last, F, idx2_cache>>
vars == <<driver, pc, inputs, loopvars, uhfvars, rhfvars, call>>

(***************************************************************************)
(* numpy helpers                                                           *)
(***************************************************************************)
RECURSIVE SumOver(_, _)
SumOver(f, X) ==
    IF X = {} THEN 0
    ELSE LET x == CHOOSE y \in X : TRUE
         IN  f[x] + SumOver(f, X \ {x})

\* np.sum of a num_ao x num_ao array, entry by entry in row-major order
RECURSIVE SumLin(_, _)
SumLin(f, k) ==
    IF k = 0 THEN 0
    ELSE f[(k - 1) \div num_ao, (k - 1) % num_ao] + SumLin(f, k - 1)
Sum(f) == SumLin(f, num_ao * num_ao)

\* the sum of f[lo] .. f[hi], as a loop over range(lo, hi + 1) accumulates it
RECURSIVE SumRange(_, _, _)
SumRange(f, lo, hi) == IF lo > hi THEN 0 ELSE f[lo] + SumRange(f, lo + 1, hi)

\* np.sum of a 1-d array given as a sequence
RECURSIVE SumTo(_, _)
SumTo(s, k) == IF k = 0 THEN 0 ELSE s[k] + SumTo(s, k - 1)
SumSeq(s) == SumTo(s, Len(s))

Abs(x) == IF x < 0 THEN -x ELSE x

\* an array with its entries computed once: TLC keeps a function constructor
\* unevaluated and would recompute an entry on every access
Array(f) == IF f = <<>> THEN f ELSE f

Zeros == [p \in Idx2 |-> 0]
Identity == [p \in Idx2 |-> IF p[1] = p[2] THEN 1 ELSE 0]
MatAdd(X, Y) == Array([p \in Idx2 |-> X[p] + Y[p]])
MatSub(X, Y) == Array([p \in Idx2 |-> X[p] - Y[p]])
Scale(c, X) == Array([p \in Idx2 |-> c * X[p]])
Multiply(X, Y) == Array([p \in Idx2 |-> X[p] * Y[p]])    \* np.multiply
Transpose(X) == Array([p \in Idx2 |-> X[p[2], p[1]]])
MatMul(X, Y) ==                                          \* the @ operator
    Array([p \in Idx2 |-> SumRange([k \in Idx |-> X[p[1], k] * Y[k, p[2]]],
                                   0, num_ao - 1)])


(***************************************************************************)
(* Two-electron integrals.  psi4 (UHF notebook) hands out the full 4-index *)
(* array; pyscf with aosym='s8' (RHF notebook) hands out the packed vector *)
(* of the canonical quadruples i >= j, k >= l, ij >= kl.                    *)
(***************************************************************************)
PairWeight(i, j) == IF i = j THEN 1 ELSE 0

\* (ij|kl), symmetric under the 8 permutations of a real two-electron integral
Integral(s, i, j, k, l) == s * (PairWeight(i, j) + PairWeight(k, l))

\* mints.ao_eri(): the 4-index array
AoEri(s) == [q \in Idx \X Idx \X Idx \X Idx |-> Integral(s, q[1], q[2], q[3], q[4])]

Tri(m) == (m * (m + 1)) \div 2
NPair == Tri(num_ao)
NPacked == Tri(NPair)
CanonQuads ==
    {q \in Idx \X Idx \X Idx \X Idx :
        /\ q[1] >= q[2]
        /\ q[3] >= q[4]
        /\ Tri(q[1]) + q[2] >= Tri(q[3]) + q[4]}

\* mol.intor('cint2e_sph', aosym='s8'): the packed vector
IntorS8(s) ==
    [p \in 0 .. (NPacked - 1) |->
        LET q == CHOOSE c \in CanonQuads :
                    Tri(Tri(c[1]) + c[2]) + Tri(c[3]) + c[4] = p
        IN  Integral(s, q[1], q[2], q[3], q[4])]

\* mutant of idx2: the branch for i < j missing
idx2_NoSwap(i, j) == (i * (i + 1)) \div 2 + j

\* idx2 of the RHF notebook: int(i*(i+1)/2+j) for i >= j, else int(j*(j+1)/2+i)
\* (the value it computes, lines 136-139)
idx2(i, j) ==
    IF i >= j THEN (i * (i + 1)) \div 2 + j
              ELSE (j * (j + 1)) \div 2 + i

idx4(i, j, k, l) == idx2(idx2(i, j), idx2(k, l))

\* mutant of CacheAfterIdx2: a cache that starts afresh once it holds 2 keys
CacheAfterIdx2_Flush(cache, i, j) ==
    IF <<i, j>> \in DOMAIN cache THEN cache
    ELSE IF Cardinality(DOMAIN cache) >= 2
         THEN Array([k \in { <<i, j>> } |-> idx2(i, j)])
         ELSE Array([k \in DOMAIN cache \cup { <<i, j>> } |->
                        IF k = <<i, j>> THEN idx2(i, j) ELSE cache[k]])

\* __idx2_cache after a call idx2(i, j) (lines 133-140): a key already there
\* is left alone, a new key gets the computed value
CacheAfterIdx2(cache, i, j) ==
    IF <<i, j>> \in DOMAIN cache THEN cache
    ELSE Array([k \in DOMAIN cache \cup { <<i, j>> } |->
                   IF k = <<i, j>> THEN idx2(i, j) ELSE cache[k]])

\* what the call idx2(i, j) returns: __idx2_cache[i, j] (lines 135, 140)
Idx2Return(cache, i, j) == CacheAfterIdx2(cache, i, j)[<<i, j>>]

\* __idx2_cache after a call idx4(i, j, k, l) (lines 143-144): idx2(i, j),
\* idx2(k, l), then idx2 of the two results
CacheAfterIdx4(cache, i, j, k, l) ==
    LET c1 == CacheAfterIdx2(cache, i, j)
        c2 == CacheAfterIdx2(c1, k, l)
    IN  CacheAfterIdx2(c2, c1[<<i, j>>], c2[<<k, l>>])

\* what the call idx4(i, j, k, l) returns
Idx4Return(cache, i, j, k, l) ==
    LET c1 == CacheAfterIdx2(cache, i, j)
        c2 == CacheAfterIdx2(c1, k, l)
    IN  Idx2Return(c2, c1[<<i, j>>], c2[<<k, l>>])

\* __idx2_cache after the loop nest over i, j, k, l of the RHF Fock build
\* (lines 202-209), which reads eri[idx4(i, j, k, l)] and eri[idx4(i, k, j, l)]
\* for every i, j, k, l.  A call leaves a key that is there alone and gives a
\* new key the value idx2 computes for it, so the cache after the nest does
\* not depend on the order of the calls: it holds, besides what it held, every
\* pair of basis indices and every pair of the values returned for two such
\* pairs.
CacheAfterFockBuild(cache) ==
    LET ret == [p \in Idx2 |-> IF p \in DOMAIN cache THEN cache[p]
                                                     ELSE idx2(p[1], p[2])]
        keys == Idx2 \cup { <<ret[p], ret[q]>> : p \in Idx2, q \in Idx2 }
    IN  Array([k \in DOMAIN cache \cup keys |->
                  IF k \in DOMAIN cache THEN cache[k] ELSE idx2(k[1], k[2])])

(***************************************************************************)
(* Density builder: D[i, j] += C[i, k] * C[j, k] for k in range(N)         *)
(***************************************************************************)
\* mutant of Density: the second factor indexed C[k, j]
Density_Swapped(C, N) ==
    Array([p \in Idx2 |-> SumRange([k \in 0 .. (N - 1) |-> C[p[1], k] * C[k, p[2]]],
                                   0, N - 1)])

Density(C, N) ==
    Array([p \in Idx2 |-> SumRange([k \in 0 .. (N - 1) |-> C[p[1], k] * C[p[2], k]],
                                   0, N - 1)])

(***************************************************************************)
(* Fock builders                                                           *)
(***************************************************************************)
\* mutant of G_rhf: the Coulomb term without its factor 2
G_rhf_CoulombOnce(Dm, e) ==
    Array([p \in Idx2 |->
            Sum([q \in Idx2 |->
                    Dm[q] * (e[idx4(p[1], p[2], q[1], q[2])]
                               - e[idx4(p[1], q[1], p[2], q[2])])])])

\* RHF notebook: G[i, j] += D[k, l] * (2.0*eri[idx4(i,j,k,l)] - eri[idx4(i,k,j,l)])
G_rhf(Dm, e) ==
    Array([p \in Idx2 |->
            Sum([q \in Idx2 |->
                    Dm[q] * (2 * e[idx4(p[1], p[2], q[1], q[2])]
                               - e[idx4(p[1], q[1], p[2], q[2])])])])

\* UHF notebook, either channel:
\*   G_s[i, j] += D_s[k, l] * (2.0*eri[i, j, k, l] - eri[i, k, j, l])
G_uhf(Ds, e) ==
    Array([p \in Idx2 |->
            Sum([q \in Idx2 |->
                    Ds[q] * (2 * e[p[1], p[2], q[1], q[2]]
                               - e[p[1], q[1], p[2], q[2]])])])

\* DIIS AO gradient: A.T @ (F @ D @ S - S @ D @ F) @ A
DiisResidual(Fm, Dm, Sm, Am) ==
    MatMul(MatMul(Transpose(Am),
                  MatSub(MatMul(MatMul(Fm, Dm), Sm), MatMul(MatMul(Sm, Dm), Fm))),
           Am)

(***************************************************************************)
(* Convergence test, lines 406 (UHF) and 229 (RHF):                        *)
(*   np.abs(iteration_E_diff) < convergence_E                              *)
(*       and iteration_rmsc_dm < convergence_DM                            *)
(* The norm is given as its square rms2; sqrt(rms2) < t iff t > 0 and      *)
(* rms2 < t*t.                                                             *)
(***************************************************************************)
SqrtBelow(rms2, t) == t > 0 /\ rms2 < t * t

\* mutant of ConvergenceTest: `or` in place of `and`
ConvergenceTest_Either(E_diff, rms2, conv_E, conv_DM) ==
    Abs(E_diff) < conv_E \/ SqrtBelow(rms2, conv_DM)

ConvergenceTest(E_diff, rms2, conv_E, conv_DM) ==
    Abs(E_diff) < conv_E /\ SqrtBelow(rms2, conv_DM)

\* np.sum((X - Y)**2), the square of the RMS change of the density matrix
SumSqDiff(X, Y) == Sum([p \in Idx2 |-> (X[p] - Y[p]) * (X[p] - Y[p])])

\* mutant of CeilingTest: the ceiling fires one iteration late
CeilingTest_Late(num, max) == num > max

\* mutant of CeilingTest: a ceiling that fires once the counter has passed it
CeilingTest_AtLeast(num, max) == num >= max

\* if(iteration_num == iteration_max): exceeded_iterations = True
CeilingTest(num, max) == num = max


(***************************************************************************)
(* Exact rationals for the Pulay solve                                     *)
(***************************************************************************)
RECURSIVE Gcd(_, _)
Gcd(a, b) == IF b = 0 THEN Abs(a) ELSE Gcd(b, Abs(a) % Abs(b))

RECURSIVE GcdOver(_, _, _)
GcdOver(f, X, g) ==
    IF X = {} THEN g
    ELSE LET x == CHOOSE y \in X : TRUE
         IN  GcdOver(f, X \ {x}, Gcd(g, f[x]))

\* the matrix num/den in lowest terms, den > 0
Reduce(num, den) ==
    LET g == GcdOver(num, DOMAIN num, Abs(den))
        s == IF den < 0 THEN -1 ELSE 1
    IN  [num |-> Array([p \in DOMAIN num |-> s * (num[p] \div g)]),
         den |-> Abs(den) \div g]

\* an integer matrix as a rational one
Rat(M) == [num |-> M, den |-> 1]

\* the sequence s without its c-th element
Remove(s, c) ==
    Array([x \in 1 .. (Len(s) - 1) |-> IF x < c THEN s[x] ELSE s[x + 1]])

\* determinant of the submatrix of M (a sequence of rows) made of the rows
\* `rows` and the columns `cols`, by expansion along its first row
RECURSIVE DetSub(_, _, _)
DetSub(M, rows, cols) ==
    IF Len(rows) = 0 THEN 1
    ELSE SumSeq([c \in 1 .. Len(cols) |->
                IF M[rows[1]][cols[c]] = 0 THEN 0
                ELSE (IF c % 2 = 1 THEN 1 ELSE -1) * M[rows[1]][cols[c]]
                         * DetSub(M, Tail(rows), Remove(cols, c))])

Iota(k) == Array([x \in 1 .. k |-> x])

Det(M) == DetSub(M, Iota(Len(M)), Iota(Len(M)))

Cofactor(M, r, c) ==
    (IF (r + c) % 2 = 0 THEN 1 ELSE -1)
        * DetSub(M, Remove(Iota(Len(M)), r), Remove(Iota(Len(M)), c))

(***************************************************************************)
(* diis(F_list, diis_res), lines 206-229.  Python lists and arrays are     *)
(* 0-based, sequences 1-based: F_list[x] of the code is F_list[x + 1]      *)
(* here, B[i, j] is B[i + 1][j + 1], B[-1, :] is B[dim_B].                 *)
(***************************************************************************)
\* np.einsum('ij,ij->', X, Y)
Einsum(X, Y) == Sum(Multiply(X, Y))

\* mutant of PulayB: the corner B[-1, -1] left at -1
PulayB_Corner(F_list, diis_res) ==
    LET dim_B == Len(F_list) + 1
    IN  Array([i \in 1 .. dim_B |->
                Array([j \in 1 .. dim_B |->
                    IF i = dim_B \/ j = dim_B THEN -1
                    ELSE Einsum(diis_res[i], diis_res[j])])])

\* the B matrix, lines 208-215
PulayB(F_list, diis_res) ==
    LET dim_B == Len(F_list) + 1
    IN  Array([i \in 1 .. dim_B |->
                Array([j \in 1 .. dim_B |->
                    IF i = dim_B /\ j = dim_B THEN 0
                    ELSE IF i = dim_B \/ j = dim_B THEN -1
                    ELSE Einsum(diis_res[i], diis_res[j])])])

\* mutant of PulayRight: right[-1] = 1
PulayRight_Plus(dim_B) == Array([x \in 1 .. dim_B |-> IF x = dim_B THEN 1 ELSE 0])

\* right hand side of the Pulay equation, lines 218-219
PulayRight(dim_B) == Array([x \in 1 .. dim_B |-> IF x = dim_B THEN -1 ELSE 0])

\* np.linalg.solve raises LinAlgError("Singular matrix") on a singular B
LinAlgError(B) == Det(B) = 0

\* np.linalg.solve(B, right): the solution is num[x] / den (Cramer's rule, the
\* determinant with column x replaced by right expanded along that column)
LinalgSolve(B, right) ==
    [num |-> Array([x \in 1 .. Len(B) |->
                      SumSeq([r \in 1 .. Len(B) |->
                                IF right[r] = 0 THEN 0
                                ELSE right[r] * Cofactor(B, r, x)])]),
     den |-> Det(B)]

\* the DIIS Fock matrix, lines 225-227: for x in range(cn.shape[0] - 1)
DiisFock(F_list, cn) ==
    Reduce(Array([p \in Idx2 |->
                    SumSeq([x \in 1 .. (Len(cn.num) - 1) |->
                              cn.num[x] * F_list[x][p]])]),
           cn.den)

diisRaises(F_list, diis_res) == LinAlgError(PulayB(F_list, diis_res))

diis(F_list, diis_res) ==
    DiisFock(F_list,
             LinalgSolve(PulayB(F_list, diis_res), PulayRight(Len(F_list) + 1)))

(***************************************************************************)
(* Inputs.  S is the identity (the only overlap whose S^(-1/2) has integer *)
(* entries), so A = fractional_matrix_power(S, -0.5) is the identity too.  *)
(***************************************************************************)
HCore(o) == [p \in Idx2 |-> IF p[1] = p[2] THEN -p[1] ELSE o]

\* what spla.eigh may return: integer stand-ins for coefficient matrices
\* (columns are orbitals); the last one mixes the basis functions
CoeffSet ==
    { Identity,
      [p \in Idx2 |-> IF p[1] = (p[2] + 1) % num_ao THEN 1 ELSE 0],
      [p \in Idx2 |-> IF p[1] >= p[2] THEN 1 ELSE 0] }

\* (num_elec_alpha, num_elec_beta): closed shell, or one unpaired electron
ElecSet == { <<1, 1>>, <<1, 0>> }

\* the molecules of the model: off-diagonal entry of H, scale of the integrals
OffDiagSet == { 0, 1 }
EriScaleSet == { 0, 1 }

\* the thresholds of the model, in the units of the stored energy and density
ThresholdSet == { 1, 2 }

NoCall == [fn |-> "none"]

InitInputs ==
    /\ S = Identity
    /\ A = Identity
    /\ \E o \in OffDiagSet : H = HCore(o)
    /\ \E s \in EriScaleSet : eri = AoEri(s) /\ eri_s8 = IntorS8(s)
    /\ E_nuc = 3
    /\ iteration_max \in 1 .. MaxIterMax
    /\ convergence_E \in ThresholdSet
    /\ convergence_DM \in ThresholdSet

\* loop variables, UHF lines 292-298 and RHF lines 186-192
InitLoopVars ==
    /\ iteration_num = 0
    /\ iteration_E_diff = 0
    /\ iteration_rmsc_dm = 0
    /\ converged = FALSE
    /\ exceeded_iterations = FALSE
    /\ E_elec_last = 0

\* names not yet bound before the first iteration hold zeros
InitUnbound ==
    /\ D_total_last = Zeros
    /\ F_alpha = Rat(Zeros)
    /\ F_beta = Rat(Zeros)
    /\ D_last = Zeros
    /\ F = Zeros

\* UHF notebook: the state when the while loop is entered (lines 169-185,
\* 288-298, 331-334)
InitUHF ==
    /\ driver = "UHF"
    /\ \E ne \in ElecSet : num_elec_alpha = ne[1] /\ num_elec_beta = ne[2]
    /\ \E C \in CoeffSet :
          /\ D_alpha = Density(C, num_elec_alpha)
          /\ D_beta = Density(C, num_elec_beta)
    /\ D_total = MatAdd(D_alpha, D_beta)
    /\ E_total = 0
    /\ E_elec = 0
    /\ F_list_alpha = <<>>
    /\ F_list_beta = <<>>
    /\ DIIS_resid_alpha = <<>>
    /\ DIIS_resid_beta = <<>>
    \* the RHF notebook does not run
    /\ E_scf_elec = 0
    /\ E_scf_total = 0
    /\ D = Zeros
    /\ idx2_cache = <<>>

\* RHF notebook: the state when the while loop is entered (lines 164, 182-192)
InitRHF ==
    /\ driver = "RHF"
    /\ num_elec_alpha = 1
    /\ num_elec_beta = 1
    /\ D = Zeros
    /\ idx2_cache = <<>>
    /\ E_scf_total = 0
    /\ E_scf_elec = 0
    \* the UHF notebook does not run
    /\ D_alpha = Zeros
    /\ D_beta = Zeros
    /\ D_total = Zeros
    /\ E_total = 0
    /\ E_elec = 0
    /\ F_list_alpha = <<>>
    /\ F_list_beta = <<>>
    /\ DIIS_resid_alpha = <<>>
    /\ DIIS_resid_beta = <<>>

Init ==
    /\ pc = "loop"
    /\ call = NoCall
    /\ InitInputs
    /\ InitLoopVars
    /\ InitUnbound
    /\ (InitUHF \/ InitRHF)

(***************************************************************************)
(* RHF notebook, one pass through the loop body (lines 195-232)            *)
(***************************************************************************)
\* mutant of OperandAfterAdd: the sum accumulated in place (X += Y)
OperandAfterAdd_InPlace(X, Y) == MatAdd(X, Y)

\* F = H + G (RHF line 211, UHF lines 358-359) binds F to a new array; the
\* left operand holds afterwards what it held before
OperandAfterAdd(X, Y) == X

\* E_scf_elec = np.sum(np.multiply(D, (H + F))) (line 221)
ElecEnergyRHF(Dm, Fm) == EScale * Sum(Multiply(Dm, MatAdd(H, Fm)))

\* mutant of TotalEnergy: the nuclear repulsion left out
TotalEnergy_NoNuc(E, Enuc) == E

\* E_scf_total = E_scf_elec + E_nuc (RHF line 235), E_total = E_elec + E_nuc
\* (UHF line 410)
TotalEnergy(E, Enuc) == E + Enuc

RHF_Iteration ==
    /\ driver = "RHF"
    /\ pc = "loop"
    /\ ~converged /\ ~exceeded_iterations
    /\ iteration_num' = iteration_num + 1
    /\ E_elec_last' = E_scf_elec
    /\ D_last' = D
    /\ F' = MatAdd(H, G_rhf(D, eri_s8))
    /\ H' = OperandAfterAdd(H, G_rhf(D, eri_s8))
    /\ idx2_cache' = CacheAfterFockBuild(idx2_cache)
    /\ \E C \in CoeffSet : D' = Density(C, num_elec_alpha)
    /\ E_scf_elec' = ElecEnergyRHF(D', F')
    /\ iteration_E_diff' = Abs(E_scf_elec' - E_elec_last')
    /\ iteration_rmsc_dm' = SumSqDiff(D', D_last')
    /\ converged' = ConvergenceTest(iteration_E_diff', iteration_rmsc_dm',
                                    convergence_E, convergence_DM)
    /\ exceeded_iterations' = CeilingTest(iteration_num', iteration_max)
    /\ UNCHANGED <<driver, pc, inputsNotH, uhfvars, E_scf_total, call>>

\* after the loop: E_scf_total = E_scf_elec + E_nuc (line 235)
RHF_Finish ==
    /\ driver = "RHF"
    /\ pc = "loop"
    /\ converged \/ exceeded_iterations
    /\ E_scf_total' = TotalEnergy(E_scf_elec, E_nuc)
    /\ pc' = "done"
    /\ UNCHANGED <<driver, inputs, loopvars, uhfvars, E_scf_elec, D, D_last, F,
                   idx2_cache, call>>


(***************************************************************************)
(* UHF notebook, one pass through the loop body (lines 338-414)            *)
(***************************************************************************)
\* F_s = H + G_s (lines 346-359)
FockRaw(Ds) == MatAdd(H, G_uhf(Ds, eri))

\* E_elec = 0.5 * np.sum(D_total*H + D_alpha*F_alpha + D_beta*F_beta)
ElecEnergyUHF(Dt, Da, Db, Fa, Fb) ==
    (EScale * Sum(MatAdd(Multiply(Dt, H),
                         MatAdd(Multiply(Da, Fa), Multiply(Db, Fb))))) \div 2

\* mutant of DiisGate: extrapolation starts one iteration late
DiisGate_Late(num) == num > 2

\* if iteration_num >= 2 (line 379)
DiisGate(num) == num >= 2

\* mutant of ListAppend: a history window that drops its oldest entry
ListAppend_Window(list, x) ==
    IF Len(list) >= 2 THEN Append(Tail(list), x) ELSE Append(list, x)

\* list.append(x), lines 374-377
ListAppend(list, x) == Append(list, x)

\* lines 339-377, up to the appended lists; shared by the pass that completes
\* and the pass that dies in np.linalg.solve
UHF_Head ==
    /\ driver = "UHF"
    /\ pc = "loop"
    /\ ~converged /\ ~exceeded_iterations
    /\ iteration_num' = iteration_num + 1
    /\ E_elec_last' = E_elec
    /\ D_total_last' = D_total
    /\ E_elec' = ElecEnergyUHF(D_total, D_alpha, D_beta,
                               FockRaw(D_alpha), FockRaw(D_beta))
    /\ H' = OperandAfterAdd(OperandAfterAdd(H, G_uhf(D_alpha, eri)),
                             G_uhf(D_beta, eri))
    /\ F_list_alpha' = ListAppend(F_list_alpha, FockRaw(D_alpha))
    /\ F_list_beta' = ListAppend(F_list_beta, FockRaw(D_beta))
    /\ DIIS_resid_alpha' =
          ListAppend(DIIS_resid_alpha,
                     DiisResidual(FockRaw(D_alpha), D_alpha, S, A))
    /\ DIIS_resid_beta' =
          ListAppend(DIIS_resid_beta,
                     DiisResidual(FockRaw(D_beta), D_beta, S, A))

UHF_Iteration ==
    /\ UHF_Head
    /\ IF DiisGate(iteration_num')
       THEN /\ ~diisRaises(F_list_alpha', DIIS_resid_alpha')
            /\ ~diisRaises(F_list_beta', DIIS_resid_beta')
            /\ F_alpha' = diis(F_list_alpha', DIIS_resid_alpha')
            /\ F_beta' = diis(F_list_beta', DIIS_resid_beta')
       ELSE /\ F_alpha' = Rat(FockRaw(D_alpha))
            /\ F_beta' = Rat(FockRaw(D_beta))
    /\ \E C_alpha \in CoeffSet, C_beta \in CoeffSet :
          /\ D_alpha' = Density(C_alpha, num_elec_alpha)
          /\ D_beta' = Density(C_beta, num_elec_beta)
    /\ D_total' = MatAdd(D_alpha', D_beta')
    /\ iteration_E_diff' = Abs(E_elec' - E_elec_last')
    /\ iteration_rmsc_dm' = SumSqDiff(D_total', D_total_last')
    /\ IF ConvergenceTest(iteration_E_diff', iteration_rmsc_dm',
                          convergence_E, convergence_DM)
       THEN converged' = TRUE /\ E_total' = TotalEnergy(E_elec', E_nuc)
       ELSE UNCHANGED <<converged, E_total>>
    /\ exceeded_iterations' = CeilingTest(iteration_num', iteration_max)
    /\ UNCHANGED <<driver, pc, inputsNotH, rhfvars, call>>

\* np.linalg.solve raises LinAlgError inside diis (line 222); nothing catches
\* it, the cell stops at line 381 (alpha) or 382 (beta)
UHF_IterationRaises ==
    /\ UHF_Head
    /\ DiisGate(iteration_num')
    /\ \/ diisRaises(F_list_alpha', DIIS_resid_alpha')
       \/ diisRaises(F_list_beta', DIIS_resid_beta')
    /\ F_alpha' = IF diisRaises(F_list_alpha', DIIS_resid_alpha')
                  THEN Rat(FockRaw(D_alpha))
                  ELSE diis(F_list_alpha', DIIS_resid_alpha')
    /\ F_beta' = Rat(FockRaw(D_beta))
    /\ pc' = "raised"
    /\ UNCHANGED <<driver, inputsNotH, rhfvars, call, iteration_E_diff,
                   iteration_rmsc_dm, converged, exceeded_iterations,
                   E_total, D_alpha, D_beta, D_total>>

\* the while condition fails and the cell ends
UHF_Exit ==
    /\ driver = "UHF"
    /\ pc = "loop"
    /\ converged \/ exceeded_iterations
    /\ pc' = "done"
    /\ UNCHANGED <<driver, inputs, loopvars, uhfvars, rhfvars, call>>

Next ==
    \/ RHF_Iteration
    \/ RHF_Finish
    \/ UHF_Iteration
    \/ UHF_IterationRaises
    \/ UHF_Exit

Spec == Init /\ [][Next]_vars


(***************************************************************************)
(* diis called directly, as the pure function of lines 206-229: the        *)
(* arguments are drawn from bounded sets, the frame `call` keeps the       *)
(* locals B, right, cn and the returned F_diis.                            *)
(***************************************************************************)
\* trial Fock matrices of a direct call: symmetric
FockPool == { HCore(1), Identity }

\* residuals of a direct call: the zero matrix and antisymmetric matrices
\* (a commutator F D S - S D F of symmetric matrices is antisymmetric)
Anti(a) ==
    [p \in Idx2 |->
        IF p[1] = a /\ p[2] = (a + 1) % num_ao THEN 1
        ELSE IF p[2] = a /\ p[1] = (a + 1) % num_ao THEN -1
        ELSE 0]
ResidPool == { Zeros, Scale(2, Anti(0)), Anti(0), Anti(1), Anti(2) }

SeqsOf(X, m) == [1 .. m -> X]

InitDiis ==
    \* no notebook runs
    /\ driver = "none"
    /\ pc = "done"
    /\ S = Identity /\ A = Identity /\ H = HCore(0)
    /\ eri = AoEri(0) /\ eri_s8 = IntorS8(0)
    /\ E_nuc = 3 /\ num_elec_alpha = 1 /\ num_elec_beta = 1
    /\ iteration_max = 1 /\ convergence_E = 1 /\ convergence_DM = 1
    /\ InitLoopVars
    /\ InitUnbound
    /\ D_alpha = Zeros /\ D_beta = Zeros /\ D_total = Zeros
    /\ E_total = 0 /\ E_elec = 0
    /\ F_list_alpha = <<>> /\ F_list_beta = <<>>
    /\ DIIS_resid_alpha = <<>> /\ DIIS_resid_beta = <<>>
    /\ E_scf_elec = 0 /\ E_scf_total = 0 /\ D = Zeros /\ idx2_cache = <<>>
    /\ \E m \in 1 .. MaxHist :
         \E Fs \in SeqsOf(FockPool, m), rs \in SeqsOf(ResidPool, m) :
            call = [fn |-> "diis", status |-> "called", F_list |-> Fs, diis_res |-> rs]

scfvars == <<driver, pc, inputs, loopvars, uhfvars, rhfvars>>

\* the call runs to its return statement (line 229)
DiisReturn ==
    /\ call.fn = "diis" /\ call.status = "called"
    /\ ~diisRaises(call.F_list, call.diis_res)
    /\ LET B == PulayB(call.F_list, call.diis_res)
           right == PulayRight(Len(call.F_list) + 1)
           cn == LinalgSolve(B, right)
       IN  call' = [fn |-> "diis", status |-> "returned",
                    F_list |-> call.F_list, diis_res |-> call.diis_res,
                    B |-> B, right |-> right, cn |-> cn,
                    F_diis |-> DiisFock(call.F_list, cn)]
    /\ UNCHANGED scfvars

\* np.linalg.solve raises LinAlgError (line 222)
DiisRaise ==
    /\ call.fn = "diis" /\ call.status = "called"
    /\ diisRaises(call.F_list, call.diis_res)
    /\ call' = [fn |-> "diis", status |-> "raised",
                F_list |-> call.F_list, diis_res |-> call.diis_res,
                B |-> PulayB(call.F_list, call.diis_res),
                right |-> PulayRight(Len(call.F_list) + 1)]
    /\ UNCHANGED scfvars

NextDiis == DiisReturn \/ DiisRaise

SpecDiis == InitDiis /\ [][NextDiis]_vars

\* ---------------------------------------------------------------------------
\* The notebooks configured with iteration_max <= 0.  Nothing in the code
\* bounds the number of passes then, so the model follows a run for
\* MaxIterMax passes and leaves it there.
\* ---------------------------------------------------------------------------

\* configured ceilings that the counter, incremented before the test, has
\* already passed
NoCeilingSet == { 0, -1 }

InitNoCeiling ==
    /\ pc = "loop"
    /\ call = NoCall
    /\ S = Identity
    /\ A = Identity
    /\ E_nuc = 3
    /\ iteration_max \in NoCeilingSet
    /\ convergence_E \in ThresholdSet
    /\ convergence_DM \in ThresholdSet
    /\ InitLoopVars
    /\ InitUnbound
    /\ \E o \in OffDiagSet : H = HCore(o)
    /\ \E s \in EriScaleSet : eri = AoEri(s) /\ eri_s8 = IntorS8(s)
    /\ (InitUHF \/ InitRHF)

\* the passes the model follows
Followed == iteration_num < MaxIterMax

NextNoCeiling ==
    \/ Followed /\ RHF_Iteration
    \/ RHF_Finish
    \/ Followed /\ UHF_Iteration
    \/ Followed /\ UHF_IterationRaises
    \/ UHF_Exit

SpecNoCeiling == InitNoCeiling /\ [][NextNoCeiling]_vars

\* ---------------------------------------------------------------------------
\* idx2 and idx4 on their own (src/unnamed/part_001 lines 130-144): a run of
\* calls on the module-level __idx2_cache, which starts empty.  The run is
\* idx4 of four basis indices, as the Fock build calls it, then idx2 of two
\* pair indices, then the first idx4 call again.
\* ---------------------------------------------------------------------------

\* the arguments idx2 is called with: basis indices and pair indices
PairIdx == 0 .. (NPair - 1)

InitIdx ==
    \* no notebook runs its loop
    /\ driver = "none"
    /\ pc = "done"
    /\ S = Identity /\ A = Identity /\ H = HCore(0)
    /\ eri = AoEri(0) /\ eri_s8 = IntorS8(0)
    /\ E_nuc = 3 /\ num_elec_alpha = 1 /\ num_elec_beta = 1
    /\ iteration_max = 1 /\ convergence_E = 1 /\ convergence_DM = 1
    /\ InitLoopVars
    /\ InitUnbound
    /\ D_alpha = Zeros /\ D_beta = Zeros /\ D_total = Zeros
    /\ E_total = 0 /\ E_elec = 0
    /\ F_list_alpha = <<>> /\ F_list_beta = <<>>
    /\ DIIS_resid_alpha = <<>> /\ DIIS_resid_beta = <<>>
    /\ E_scf_elec = 0 /\ E_scf_total = 0 /\ D = Zeros
    \* __idx2_cache = {} (line 130)
    /\ idx2_cache = <<>>
    /\ call = [fn |-> "idx", step |-> 0]

notCache == <<driver, pc, inputs, loopvars, uhfvars,
              E_scf_elec, E_scf_total, D, D_last, F>>

\* idx4(i, j, k, l) with basis indices (lines 143-144)
IdxFirst ==
    /\ call.fn = "idx" /\ call.step = 0
    /\ \E i \in Idx, j \in Idx, k \in Idx, l \in Idx :
         /\ idx2_cache' = CacheAfterIdx4(idx2_cache, i, j, k, l)
         /\ call' = [fn |-> "idx", step |-> 1, q |-> <<i, j, k, l>>,
                      r1 |-> Idx4Return(idx2_cache, i, j, k, l)]
    /\ UNCHANGED notCache

\* idx2(x, y) (lines 133-140); cached records whether the key was there
IdxLookup ==
    /\ call.fn = "idx" /\ call.step = 1
    /\ \E x \in PairIdx, y \in PairIdx :
         /\ idx2_cache' = CacheAfterIdx2(idx2_cache, x, y)
         /\ call' = [fn |-> "idx", step |-> 2, q |-> call.q, r1 |-> call.r1,
                      xy |-> <<x, y>>,
                      cached |-> (<<x, y>> \in DOMAIN idx2_cache),
                      r2 |-> Idx2Return(idx2_cache, x, y)]
    /\ UNCHANGED notCache

\* the first idx4 call once more, now answered from the cache
IdxAgain ==
    /\ call.fn = "idx" /\ call.step = 2
    /\ idx2_cache' = CacheAfterIdx4(idx2_cache, call.q[1], call.q[2],
                                    call.q[3], call.q[4])
    /\ call' = [fn |-> "idx", step |-> 3, q |-> call.q, r1 |-> call.r1,
                 xy |-> call.xy, cached |-> call.cached, r2 |-> call.r2,
                 r3 |-> Idx4Return(idx2_cache, call.q[1], call.q[2],
                                   call.q[3], call.q[4])]
    /\ UNCHANGED notCache

NextIdx == IdxFirst \/ IdxLookup \/ IdxAgain

SpecIdx == InitIdx /\ [][NextIdx]_vars


(***************************************************************************)
(* Properties                                                              *)
(***************************************************************************)
\* the quantities of the notebook that runs
ElecEnergyNow == IF driver = "RHF" THEN E_scf_elec ELSE E_elec
DensityNow == IF driver = "RHF" THEN D ELSE D_total
DensityLast == IF driver = "RHF" THEN D_last ELSE D_total_last
Last(s) == s[Len(s)]

\* C1: in both loops converged is true only if, in the pass that set it, the
\* energy change |E_now - E_prev| was strictly below the energy threshold and
\* the norm of the density change strictly below the density threshold.  The
\* loop stops at once, so the stored changes are those of that pass.
C1_ConvergedOnlyIfBothBelow ==
    converged =>
        /\ iteration_num >= 1
        /\ iteration_E_diff = Abs(ElecEnergyNow - E_elec_last)
        /\ iteration_rmsc_dm = SumSqDiff(DensityNow, DensityLast)
        /\ iteration_E_diff < convergence_E
        /\ convergence_DM > 0
        /\ iteration_rmsc_dm < convergence_DM * convergence_DM

\* C1 witness: a converged run
C1_Witness == converged /\ pc = "done" /\ iteration_num >= 2

\* reachable near misses of C1: one change below, the other on its threshold
C1_EnergyOnThreshold ==
    /\ iteration_num >= 1 /\ ~converged
    /\ iteration_E_diff = convergence_E
    /\ iteration_rmsc_dm < convergence_DM * convergence_DM
C1_DensityOnThreshold ==
    /\ iteration_num >= 1 /\ ~converged
    /\ iteration_E_diff < convergence_E
    /\ iteration_rmsc_dm = convergence_DM * convergence_DM

\* C2 (as claimed): no run has both converged and exceeded_iterations true
C2_AtMostOneTerminalFlag == ~(converged /\ exceeded_iterations)

\* C3: while the convergence test has failed in every pass made so far,
\* exceeded_iterations is true exactly when iteration_num has reached
\* iteration_max, the run has ended only then, and converged stays false; so a
\* run whose test fails in each of the passes 1..iteration_max ends after
\* exactly iteration_max passes with exceeded_iterations and without converged.
C3_CeilingEndsTheRun ==
    (~converged /\ pc # "raised") =>
        /\ iteration_num <= iteration_max
        /\ exceeded_iterations <=> (iteration_num = iteration_max)
        /\ pc = "done" => exceeded_iterations
        /\ ~exceeded_iterations => pc = "loop"

\* C3 witness: a run of several passes that ended on the ceiling
C3_Witness ==
    /\ pc = "done" /\ ~converged /\ exceeded_iterations
    /\ iteration_max >= 2 /\ iteration_num = iteration_max

\* C3 witness of the case iteration_max = 1 (reachable as well)
C3_WitnessOnePass ==
    pc = "done" /\ ~converged /\ exceeded_iterations /\ iteration_max = 1

\* C4 (as claimed): iteration_num counts from 0 up to at most iteration_max
\* and a run that has left the loop has reached converged or
\* exceeded_iterations
C4_LoopTerminates ==
    /\ iteration_num \in 0 .. iteration_max
    /\ pc # "loop" => (converged \/ exceeded_iterations)

\* C5: the Fock matrix handed to the eigensolver is the raw one of the pass
\* while the history of the channel holds fewer than 2 entries, and the DIIS
\* extrapolation of the history once it holds 2 or more.  (F_alpha and F_beta
\* hold what line 385-386 passed on; the RHF notebook keeps no history.)
C5_FockToEigensolver ==
    (iteration_num >= 1 /\ pc # "raised") =>
        /\ driver = "UHF" =>
              /\ Len(F_list_alpha) < 2 => F_alpha = Rat(Last(F_list_alpha))
              /\ Len(F_list_beta) < 2 => F_beta = Rat(Last(F_list_beta))
              /\ Len(F_list_alpha) >= 2 =>
                    /\ ~diisRaises(F_list_alpha, DIIS_resid_alpha)
                    /\ F_alpha = diis(F_list_alpha, DIIS_resid_alpha)
              /\ Len(F_list_beta) >= 2 =>
                    /\ ~diisRaises(F_list_beta, DIIS_resid_beta)
                    /\ F_beta = diis(F_list_beta, DIIS_resid_beta)
        /\ driver = "RHF" =>
              /\ Len(F_list_alpha) = 0 /\ Len(F_list_beta) = 0
              /\ F = MatAdd(H, G_rhf(D_last, eri_s8))

\* C5 witness: a completed pass whose extrapolated matrices differ from the raw
C5_Witness ==
    /\ driver = "UHF" /\ pc # "raised"
    /\ Len(F_list_alpha) >= 2
    /\ F_alpha # Rat(Last(F_list_alpha))
    /\ F_beta # Rat(Last(F_list_beta))

\* C6: a call of diis with exactly one (Fock, residual) pair returns; its
\* coefficient is 1 (numerator equal to the denominator of the solution) and
\* the matrix it returns is the stored Fock matrix, whatever the residual.
C6_SinglePairIsNoOp ==
    (call.fn = "diis" /\ call.status # "called" /\ Len(call.F_list) = 1) =>
        /\ call.status = "returned"
        /\ Len(call.cn.num) = 2
        /\ call.cn.den # 0
        /\ call.cn.num[1] = call.cn.den
        /\ call.F_diis = Rat(call.F_list[1])

\* C6 witness: a returned call with one pair whose residual is zero
C6_Witness ==
    /\ call.fn = "diis" /\ call.status = "returned"
    /\ Len(call.F_list) = 1
    /\ call.diis_res[1] = Zeros
    /\ call.F_list[1] # Zeros

\* C6 witness of the other case: one pair with a nonzero residual
C6_WitnessNonzeroResidual ==
    /\ call.fn = "diis" /\ call.status = "returned"
    /\ Len(call.F_list) = 1
    /\ call.diis_res[1] # Zeros

\* C7: for a history of m >= 1 entries diis assembles the (m+1)x(m+1) system
\* with B_ij = sum_pq e_i[p,q]*e_j[p,q] for i,j <= m, -1 in the last row and
\* column, 0 in the corner and right hand side (0,...,0,-1); the solution c
\* solves B c = right, its first m components sum to 1, and the matrix
\* returned is sum_{i<=m} c_i F_i, without the multiplier c_{m+1}.
C7_PulaySystem ==
    (call.fn = "diis" /\ call.status = "returned") =>
        LET m == Len(call.F_list)
            c == call.cn
        IN  /\ m >= 1
            /\ Len(call.B) = m + 1 /\ Len(call.right) = m + 1
            /\ Len(c.num) = m + 1 /\ c.den # 0
            /\ \A i \in 1 .. m + 1 : Len(call.B[i]) = m + 1
            /\ \A i, j \in 1 .. m :
                  call.B[i][j] =
                      SumOver([p \in Idx2 |->
                          call.diis_res[i][p] * call.diis_res[j][p]], Idx2)
            /\ \A i \in 1 .. m : call.B[i][m + 1] = -1 /\ call.B[m + 1][i] = -1
            /\ call.B[m + 1][m + 1] = 0
            /\ \A i \in 1 .. m : call.right[i] = 0
            /\ call.right[m + 1] = -1
            /\ \A r \in 1 .. m + 1 :
                  SumTo([x \in 1 .. m + 1 |-> call.B[r][x] * c.num[x]], m + 1)
                      = call.right[r] * c.den
            /\ SumTo([x \in 1 .. m |-> c.num[x]], m) = c.den
            /\ call.F_diis.den > 0
            /\ \A p \in Idx2 :
                  call.F_diis.num[p] * c.den =
                      call.F_diis.den *
                          SumTo([x \in 1 .. m |-> c.num[x] * call.F_list[x][p]], m)

\* C7 witness: a returned call with three pairs, a nonzero multiplier and
\* coefficients that are not all equal
C7_Witness ==
    /\ call.fn = "diis" /\ call.status = "returned"
    /\ Len(call.F_list) = 3
    /\ call.cn.num[4] # 0
    /\ call.cn.num[1] # call.cn.num[2]
    /\ call.F_diis # Rat(call.F_list[3])

\* C8 (as claimed): a singular Pulay matrix never aborts the run; the pass
\* goes on with the raw Fock matrices of that pass
C8_SingularHandledLocally ==
    (/\ driver = "UHF" /\ Len(F_list_alpha) >= 2
     /\ \/ diisRaises(F_list_alpha, DIIS_resid_alpha)
        \/ diisRaises(F_list_beta, DIIS_resid_beta)) =>
        /\ pc # "raised"
        /\ F_alpha = Rat(Last(F_list_alpha))
        /\ F_beta = Rat(Last(F_list_beta))

\* the G matrix of a spin channel as the markdown of lines 238-248 states it
G_uhf_markdown(Dt, Ds, e) ==
    [p \in Idx2 |->
        SumOver([q \in Idx2 |->
            Dt[q] * e[p[1], p[2], q[1], q[2]]
                - Ds[q] * e[p[1], q[1], p[2], q[2]]], Idx2)]

\* C9 (as claimed): every pass of the unrestricted loop builds, for each spin
\* channel s, F_s = H + G_s with G_s[i,j] = sum_kl Ptotal[k,l]*(ij|kl) -
\* P_s[k,l]*(ik|jl) from the densities the pass started with
C9_UhfFockBuild ==
    [][(driver = "UHF" /\ iteration_num' = iteration_num + 1) =>
          /\ Last(F_list_alpha') = MatAdd(H, G_uhf_markdown(D_total, D_alpha, eri))
          /\ Last(F_list_beta') = MatAdd(H, G_uhf_markdown(D_total, D_beta, eri))]_vars

\* C10: after every pass of the restricted loop, F[i,j] = H[i,j] +
\* sum_kl P[k,l]*(2*(ij|kl) - (ik|jl)) with P the density the pass started
\* with (kept in D_last) and (ij|kl) the entries of the full tensor, which the
\* loop reads from the packed vector through idx4.
C10_RhfFockBuild ==
    (driver = "RHF" /\ iteration_num >= 1) =>
        \A i, j \in Idx :
            /\ F[i, j] = H[i, j] + SumOver([q \in Idx2 |->
                            D_last[q] * (2 * eri[i, j, q[1], q[2]]
                                            - eri[i, q[1], j, q[2]])], Idx2)
            /\ \A k, l \in Idx : eri_s8[idx4(i, j, k, l)] = eri[i, j, k, l]

\* C10 witness: a pass that started from a nonzero density with nonzero
\* integrals, with Coulomb and exchange contributions that differ
C10_Witness ==
    /\ driver = "RHF" /\ iteration_num >= 2
    /\ D_last # Zeros
    /\ F # H
    /\ \E i, j, k, l \in Idx :
          D_last[k, l] # 0 /\ eri[i, j, k, l] # eri[i, k, j, l]

\* C11 (as claimed): from a common density (N_alpha = N_beta, P_alpha =
\* P_beta = P) a pass of the unrestricted loop builds the Fock matrix the
\* restricted loop builds from P, hands it to the eigensolver in the first
\* pass, and, the eigensolver answering both channels alike, computes the
\* electronic energy the restricted loop computes in its pass
C11_UhfReducesToRhf ==
    [][(/\ driver = "UHF" /\ pc' = "loop"
        /\ num_elec_alpha = num_elec_beta
        /\ D_alpha = D_beta
        /\ iteration_num' = iteration_num + 1
        /\ D_alpha' = D_beta') =>
          LET F_rhf == MatAdd(H, G_rhf(D_alpha, eri_s8))
          IN  /\ Last(F_list_alpha') = F_rhf
              /\ Last(F_list_beta') = F_rhf
              /\ iteration_num = 0 => F_alpha' = Rat(F_rhf) /\ F_beta' = Rat(F_rhf)
              /\ E_elec' = ElecEnergyRHF(D_alpha', F_rhf)]_vars

\* the part of C11 the loops do satisfy: the Fock matrices agree
C11_FockAgrees ==
    [][(/\ driver = "UHF" /\ pc' = "loop"
        /\ num_elec_alpha = num_elec_beta
        /\ D_alpha = D_beta
        /\ iteration_num' = iteration_num + 1) =>
          LET F_rhf == MatAdd(H, G_rhf(D_alpha, eri_s8))
          IN  /\ Last(F_list_alpha') = F_rhf
              /\ Last(F_list_beta') = F_rhf
              /\ iteration_num = 0 => F_alpha' = Rat(F_rhf) /\ F_beta' = Rat(F_rhf)
              /\ E_elec' = ElecEnergyRHF(D_alpha, F_rhf)]_vars

\* C12: a run that has ended with converged set reports as total energy the
\* electronic energy of its last pass plus E_nuc (the UHF loop sets E_total
\* in the converging pass itself, the RHF notebook sets E_scf_total after the
\* loop); the electronic energy is the one the last convergence test used.
C12_TotalEnergyOnConverged ==
    converged =>
        /\ iteration_E_diff = Abs(ElecEnergyNow - E_elec_last)
        /\ driver = "UHF" => E_total = E_elec + E_nuc
        /\ (driver = "RHF" /\ pc = "done") => E_scf_total = E_scf_elec + E_nuc

\* C12 witness: a converged unrestricted run with a nonzero electronic energy
C12_Witness ==
    /\ driver = "UHF" /\ pc = "done" /\ converged
    /\ E_elec # 0 /\ E_nuc # 0 /\ iteration_num >= 2

\* C12 witness of the restricted driver
C12_WitnessRhf ==
    /\ driver = "RHF" /\ pc = "done" /\ converged
    /\ E_scf_elec # 0 /\ E_nuc # 0

\* C13: the DIIS history is append-only.  A step of the unrestricted loop
\* either leaves the four lists alone or is a pass that appends to each the
\* raw Fock matrix H + G_s, resp. the residual, built from the densities the
\* pass started with; so the lists hold one entry per pass made, the earlier
\* entries stay as they are, and the Pulay system of pass k has size k + 1.
C13_HistoryAppendOnly ==
    [][driver = "UHF" =>
          LET Fa == MatAdd(H, G_uhf(D_alpha, eri))
              Fb == MatAdd(H, G_uhf(D_beta, eri))
          IN  /\ \/ /\ iteration_num' = iteration_num
                    /\ UNCHANGED <<F_list_alpha, F_list_beta,
                                   DIIS_resid_alpha, DIIS_resid_beta>>
                 \/ /\ iteration_num' = iteration_num + 1
                    /\ F_list_alpha' = F_list_alpha \o <<Fa>>
                    /\ F_list_beta' = F_list_beta \o <<Fb>>
                    /\ DIIS_resid_alpha' = DIIS_resid_alpha
                          \o <<DiisResidual(Fa, D_alpha, S, A)>>
                    /\ DIIS_resid_beta' = DIIS_resid_beta
                          \o <<DiisResidual(Fb, D_beta, S, A)>>
              /\ Len(F_list_alpha') = iteration_num'
              /\ Len(F_list_beta') = iteration_num'
              /\ Len(DIIS_resid_alpha') = iteration_num'
              /\ Len(DIIS_resid_beta') = iteration_num'
              /\ iteration_num' >= 2 =>
                    /\ Len(PulayB(F_list_alpha', DIIS_resid_alpha'))
                          = iteration_num' + 1
                    /\ Len(PulayB(F_list_beta', DIIS_resid_beta'))
                          = iteration_num' + 1]_vars

\* C13 witness: three passes made, three distinct raw matrices kept, the
\* matrix handed to the eigensolver an extrapolated one
C13_Witness ==
    /\ driver = "UHF" /\ pc # "raised"
    /\ iteration_num = 3 /\ Len(F_list_alpha) = 3
    /\ F_list_alpha[1] # F_list_alpha[2]
    /\ F_list_alpha[2] # F_list_alpha[3]
    /\ F_alpha # Rat(F_list_alpha[3])
    /\ DIIS_resid_alpha[3] # Zeros

\* C14: no step changes the fixed inputs S, H, the two-electron integrals
\* (full and packed), A, E_nuc, the electron counts, iteration_max and the two
\* thresholds; and a pass that calls diis leaves in the four lists exactly
\* what it handed to diis.
C14_InputsFixed ==
    [][/\ S' = S /\ H' = H /\ A' = A
       /\ eri' = eri /\ eri_s8' = eri_s8
       /\ E_nuc' = E_nuc
       /\ num_elec_alpha' = num_elec_alpha /\ num_elec_beta' = num_elec_beta
       /\ iteration_max' = iteration_max
       /\ convergence_E' = convergence_E /\ convergence_DM' = convergence_DM
       /\ (driver = "UHF" /\ iteration_num' = iteration_num + 1
              /\ iteration_num' >= 2) =>
             /\ SubSeq(F_list_alpha', 1, iteration_num) = F_list_alpha
             /\ SubSeq(F_list_beta', 1, iteration_num) = F_list_beta
             /\ SubSeq(DIIS_resid_alpha', 1, iteration_num) = DIIS_resid_alpha
             /\ SubSeq(DIIS_resid_beta', 1, iteration_num) = DIIS_resid_beta
             /\ Last(F_list_alpha') = MatAdd(H, G_uhf(D_alpha, eri))
             /\ Last(F_list_beta') = MatAdd(H, G_uhf(D_beta, eri))]_vars

\* C14 for a direct call of diis: the call keeps its two arguments as they
\* were handed in
C14_DiisKeepsItsArguments ==
    [][call.fn = "diis" =>
          call'.F_list = call.F_list /\ call'.diis_res = call.diis_res]_vars

\* C14 witness: a finished run of several passes whose Fock matrices differ
\* from H and that called diis
C14_Witness ==
    /\ driver = "UHF" /\ pc = "done" /\ iteration_num >= 2
    /\ Last(F_list_alpha) # H /\ Last(F_list_beta) # H
    /\ F_alpha # Rat(H)

IsSymmetric(X) == \A i, j \in Idx : X[i, j] = X[j, i]

\* C15: with S and H symmetric and the integrals 8-fold symmetric, every
\* density matrix (P_alpha, P_beta, Ptotal, the restricted P and the copies of
\* the previous pass) and every Fock matrix (the raw ones kept in the lists,
\* the restricted F and the matrices handed to the eigensolver, extrapolated
\* or not) is symmetric in every reachable state.
C15_DensityAndFockSymmetric ==
    (/\ IsSymmetric(S) /\ IsSymmetric(H)
     /\ \A i, j, k, l \in Idx :
           /\ eri[i, j, k, l] = eri[j, i, k, l]
           /\ eri[i, j, k, l] = eri[i, j, l, k]
           /\ eri[i, j, k, l] = eri[k, l, i, j]) =>
        /\ IsSymmetric(D_alpha) /\ IsSymmetric(D_beta) /\ IsSymmetric(D_total)
        /\ IsSymmetric(D_total_last)
        /\ IsSymmetric(D) /\ IsSymmetric(D_last)
        /\ IsSymmetric(F)
        /\ IsSymmetric(F_alpha.num) /\ IsSymmetric(F_beta.num)
        /\ \A x \in 1 .. Len(F_list_alpha) : IsSymmetric(F_list_alpha[x])
        /\ \A x \in 1 .. Len(F_list_beta) : IsSymmetric(F_list_beta[x])

\* C15 witness: densities and an extrapolated Fock matrix with nonzero
\* off-diagonal entries
C15_Witness ==
    /\ driver = "UHF" /\ pc # "raised" /\ iteration_num >= 2
    /\ F_alpha # Rat(Last(F_list_alpha))
    /\ \E i, j \in Idx :
          /\ i # j /\ D_alpha[i, j] # 0 /\ D_total_last[i, j] # 0
          /\ F_alpha.num[i, j] # 0 /\ Last(F_list_alpha)[i, j] # H[i, j]

\* C15 witness of the restricted driver
C15_WitnessRhf ==
    /\ driver = "RHF" /\ iteration_num >= 2
    /\ D_last # Zeros
    /\ \E i, j \in Idx : i # j /\ D[i, j] # 0
    /\ \E i, j \in Idx : i # j /\ F[i, j] # H[i, j]

\* the 8 permutations of a quadruple under which (ij|kl) is unchanged
Perms8(q) ==
    { <<q[1], q[2], q[3], q[4]>>, <<q[2], q[1], q[3], q[4]>>,
      <<q[1], q[2], q[4], q[3]>>, <<q[2], q[1], q[4], q[3]>>,
      <<q[3], q[4], q[1], q[2]>>, <<q[4], q[3], q[1], q[2]>>,
      <<q[3], q[4], q[2], q[1]>>, <<q[4], q[3], q[2], q[1]>> }

\* C16: idx4 is a canonical form for the 8-fold symmetry: the index the call
\* idx4(i, j, k, l) returns lies in 0 .. M(M+1)/2 - 1 with M = n(n+1)/2, and a
\* quadruple of basis indices gets the same index exactly when it is one of
\* the 8 permutations of (i, j, k, l).
C16_Idx4Canonical ==
    (call.fn = "idx" /\ call.step = 1) =>
        /\ call.r1 \in 0 .. (Tri(Tri(num_ao)) - 1)
        /\ \A i \in Idx, j \in Idx, k \in Idx, l \in Idx :
              (Idx4Return(<<>>, i, j, k, l) = call.r1)
                  <=> (<<i, j, k, l>> \in Perms8(call.q))

\* an idx4 call whose 8 permutations are 8 different quadruples has returned
C16_Witness ==
    /\ call.fn = "idx" /\ call.step = 1
    /\ Cardinality(Perms8(call.q)) = 8
    /\ call.r1 > 0

\* the closed form of the pair index
PairClosedForm(i, j) ==
    LET hi == IF i >= j THEN i ELSE j
        lo == IF i >= j THEN j ELSE i
    IN  (hi * (hi + 1)) \div 2 + lo

\* C19: over any of the calls, every entry of __idx2_cache equals the closed
\* form max(i,j)*(max(i,j)+1)/2 + min(i,j) of its key, an entry that is there
\* stays with the value it had, idx2(x, y) returns the closed form whether or
\* not (x, y) was cached, and a repeated idx4 call returns what it returned
\* the first time.
C19_CacheConsistent ==
    [][ /\ \A key \in DOMAIN idx2_cache' :
              idx2_cache'[key] = PairClosedForm(key[1], key[2])
        /\ \A key \in DOMAIN idx2_cache :
              key \in DOMAIN idx2_cache' /\ idx2_cache'[key] = idx2_cache[key]
        /\ call'.step = 2 => call'.r2 = PairClosedForm(call'.xy[1], call'.xy[2])
        /\ call'.step = 3 => call'.r3 = call'.r1 ]_vars

\* idx2 was answered from the cache for a key that idx4 stored both as a pair
\* of basis indices and as a pair of pair indices
C19_Witness ==
    /\ call.fn = "idx" /\ call.step = 3
    /\ call.cached
    /\ call.xy = <<call.q[1], call.q[2]>>
    /\ call.xy = <<PairClosedForm(call.q[1], call.q[2]),
                   PairClosedForm(call.q[3], call.q[4])>>
    /\ call.q[1] # call.q[2]

\* idx2 was called with a key that was not cached
C19_WitnessMiss ==
    /\ call.fn = "idx" /\ call.step = 3
    /\ ~call.cached
    /\ call.xy[1] < call.xy[2]
    /\ Cardinality(DOMAIN idx2_cache) = 4

\* the densities of the running driver are the guess built from the orbitals C
IsCoreGuess(C) ==
    IF driver = "UHF"
    THEN /\ D_alpha = Density(C, num_elec_alpha)
         /\ D_beta = Density(C, num_elec_beta)
         /\ D_total = MatAdd(D_alpha, D_beta)
    ELSE D = Density(C, num_elec_alpha)

\* C17: before the first loop iteration each channel's density is the
\* core-Hamiltonian guess, the sum over the N_s lowest orbitals k of
\* C[i,k]*C[j,k] for orbitals C that eigh(H, S) may return, and the total
\* density is the sum of the channels, in the UHF and in the RHF notebook.
C17_StartsFromCoreGuess ==
    (pc = "loop" /\ iteration_num = 0) => \E C \in CoeffSet : IsCoreGuess(C)

\* the part of C17 that holds: the UHF notebook starts from the core guess
C17_UhfStartsFromCoreGuess ==
    (driver = "UHF" /\ pc = "loop" /\ iteration_num = 0) =>
        \E C \in CoeffSet : IsCoreGuess(C)

\* the electronic energy of the density and of the Fock matrix built from it,
\* as the running driver's formula computes it
EnergyOfCurrentDensity ==
    IF driver = "UHF"
    THEN ElecEnergyUHF(D_total, D_alpha, D_beta,
                       FockRaw(D_alpha), FockRaw(D_beta))
    ELSE ElecEnergyRHF(D, MatAdd(H, G_rhf(D, eri_s8)))

\* in a pass that ran to its end, the changes are taken against the energy
\* and the density of the previous pass
DiffsAgainstPreviousPass ==
    pc' # "raised" =>
        /\ iteration_E_diff' = Abs(ElecEnergyNow' - ElecEnergyNow)
        /\ iteration_rmsc_dm' = SumSqDiff(DensityNow', DensityNow)

\* C18: in every pass of either driver the electronic energy is computed from
\* the density the pass started with and the Fock matrix built from that
\* density, never from the rebuilt density, and the energy and density changes
\* are taken against the previous pass.
C18_EnergyFromFockDensity ==
    [][iteration_num' = iteration_num + 1 =>
          /\ ElecEnergyNow' = EnergyOfCurrentDensity
          /\ DiffsAgainstPreviousPass]_vars

\* the part of C18 that holds: the step order of the UHF notebook
C18_UhfStepOrder ==
    [][(driver = "UHF" /\ iteration_num' = iteration_num + 1) =>
          /\ ElecEnergyNow' = EnergyOfCurrentDensity
          /\ DiffsAgainstPreviousPass]_vars

\* what holds in the RHF notebook instead: the energy is computed from the
\* rebuilt density and the Fock matrix of the density before it
C18_RhfEnergyAfterRebuild ==
    [][(driver = "RHF" /\ iteration_num' = iteration_num + 1) =>
          /\ E_scf_elec' = ElecEnergyRHF(D', MatAdd(H, G_rhf(D, eri_s8)))
          /\ DiffsAgainstPreviousPass]_vars

C20_WitnessConverged ==
    iteration_max <= 0 /\ pc = "done" /\ converged /\ ~exceeded_iterations

============================================================================
